---- MODULE Spec2Model ----
(***************************************************************************)
(* Student Performance Analyzer (src/main.py): the CSV store, record entry *)
(* and the analysis menu, as a state machine.                              *)
(*                                                                         *)
(* Text is a sequence of one-character strings, so that formatting a value *)
(* (to_csv) and parsing it back (read_csv) are computed, not assumed.      *)
(* A DataFrame cell is StrCell(text), IntCell(n), FltCell(h) or NaNCell.   *)
(* Numbers with a fraction are kept in hundredths: 80.0 is FltCell(8000).  *)
(***************************************************************************)
EXTENDS Integers, Sequences, FiniteSets, TLC

VARIABLES
    pc,      \* where the program is: "start", "main", "analysis", "done", "crashed"
    file,    \* student_data.csv
    df,      \* analyze_performance's DataFrame (with Percentage and Grade)
    out,     \* what the last step printed ("none" when nothing)
    report,  \* what the analysis menu's last action computed
    lastOp,  \* the operation that ran last
    gp,      \* assign_grade's argument (SpecGrade)
    gg       \* assign_grade's result (SpecGrade)

vars == <<pc, file, df, out, report, lastOp, gp, gg>>

\* ---------------------------------------------------------------- bounds
MaxRows == 3

\* ------------------------------------------------------------- constants
SUBJECTS == <<"Machine Learning", "UHV", "DMGT", "DBMS", "OT", "ES">>

NameCol == "Name"

Header == <<NameCol>> \o SUBJECTS

SubjectSet == {SUBJECTS[j] : j \in 1..Len(SUBJECTS)}

\* ------------------------------------------------------------------ text
Digits == <<"0", "1", "2", "3", "4", "5", "6", "7", "8", "9">>

IsDigit(c) == \E d \in 1..10 : Digits[d] = c

DigitVal(c) == (CHOOSE d \in 1..10 : Digits[d] = c) - 1

RECURSIVE ParseNat(_)
ParseNat(s) ==
    IF s = <<>> THEN 0
    ELSE ParseNat(SubSeq(s, 1, Len(s) - 1)) * 10 + DigitVal(s[Len(s)])

RECURSIVE FormatNat(_)
FormatNat(n) ==
    IF n < 10 THEN <<Digits[n + 1]>>
    ELSE FormatNat(n \div 10) \o <<Digits[(n % 10) + 1]>>

\* repr of a float kept in hundredths: 8000 -> 80.0, 7083 -> 70.83, 750 -> 7.5
FormatFloat(h) ==
    FormatNat(h \div 100) \o <<".">> \o
        (IF h % 10 = 0 THEN <<Digits[((h % 100) \div 10) + 1]>>
         ELSE <<Digits[((h % 100) \div 10) + 1], Digits[(h % 10) + 1]>>)

\* pandas' default na_values (those over the letters the inputs use)
NA_VALUES ==
    { <<>>, <<"N", "A">>, <<"N", "a", "N">>, <<"n", "a", "n">>,
      <<"N", "U", "L", "L">>, <<"n", "u", "l", "l">>, <<"N", "o", "n", "e">> }

IsNAText(t) == t \in NA_VALUES

IsIntText(t) == Len(t) > 0 /\ \A i \in 1..Len(t) : IsDigit(t[i])

\* digits "." digits, at most two decimals (the model's float resolution)
IsFloatText(t) ==
    \E d \in 1..Len(t) :
        /\ t[d] = "."
        /\ Len(t) > 1
        /\ Len(t) - d <= 2
        /\ \A i \in 1..Len(t) : i # d => IsDigit(t[i])

FloatVal(t) ==
    LET d == CHOOSE i \in 1..Len(t) : t[i] = "."
        frac == SubSeq(t, d + 1, Len(t))
    IN  ParseNat(SubSeq(t, 1, d - 1)) * 100
        + (IF Len(frac) = 1 THEN ParseNat(frac) * 10 ELSE ParseNat(frac))

\* ----------------------------------------------------------------- cells
StrCell(s) == [k |-> "str", s |-> s, n |-> 0]

IntCell(n) == [k |-> "int", s |-> <<>>, n |-> n]

FltCell(h) == [k |-> "float", s |-> <<>>, n |-> h]

NaNCell == [k |-> "nan", s |-> <<>>, n |-> 0]

IsNumCell(c) == c.k \in {"int", "float"}

\* a numeric cell's value in hundredths
Hundredths(c) == IF c.k = "int" THEN c.n * 100 ELSE c.n

\* what to_csv writes for a cell (na_rep is the empty string)
FormatCell(c) ==
    CASE c.k = "str" -> c.s
      [] c.k = "int" -> FormatNat(c.n)
      [] c.k = "float" -> FormatFloat(c.n)
      [] OTHER -> <<>>

\* ------------------------------------------------------------ DataFrames
HasCol(cols, c) == \E j \in 1..Len(cols) : cols[j] = c

ColIndex(cols, c) == CHOOSE j \in 1..Len(cols) : cols[j] = c

Cell(d, i, c) == d.rows[i][ColIndex(d.cols, c)]

EmptyFrame(cols) == [cols |-> cols, rows |-> <<>>]

\* ------------------------------------------------------------- the file
\* blanks: leading blank lines; header: the first non-blank line's fields;
\* rows: the following lines' fields (text).
AbsentFile == [exists |-> FALSE, blanks |-> 0, header |-> <<>>, rows |-> <<>>]

ZeroByteFile == [exists |-> TRUE, blanks |-> 0, header |-> <<>>, rows |-> <<>>]

BlankFile == [exists |-> TRUE, blanks |-> 1, header |-> <<>>, rows |-> <<>>]

TableFile(h, r) == [exists |-> TRUE, blanks |-> 0, header |-> h, rows |-> r]

\* os.stat(CSV_FILE).st_size, in lines
st_size(f) == f.blanks + (IF f.header = <<>> THEN 0 ELSE 1) + Len(f.rows)

\* ------------------------------------------------------- pandas.read_csv
\* "ok", or the exception read_csv raises. A line with more fields than the
\* header is a tokenizing error (the inputs hold no file whose first data
\* line is the long one, which pandas reads as an index column).
ReadError(f) ==
    IF ~f.exists THEN "FileNotFoundError"
    ELSE IF f.header = <<>> THEN "EmptyDataError"
    ELSE IF \E i \in 1..Len(f.rows) : Len(f.rows[i]) > Len(f.header)
         THEN "ParserError"
    ELSE "ok"

\* a short line is padded with missing values
PadRow(r, n) == [j \in 1..n |-> IF j <= Len(r) THEN r[j] ELSE <<>>]

\* the dtype read_csv infers for a column from its texts
InferDtype(texts) ==
    IF Len(texts) = 0 THEN "object"
    ELSE IF \A i \in 1..Len(texts) : IsIntText(texts[i]) THEN "int64"
    ELSE IF \A i \in 1..Len(texts) :
                IsNAText(texts[i]) \/ IsIntText(texts[i]) \/ IsFloatText(texts[i])
         THEN "float64"
    ELSE "object"

ParseCell(t, dtype) ==
    CASE dtype = "int64" -> IntCell(ParseNat(t))
      [] dtype = "float64" ->
            IF IsNAText(t) THEN NaNCell
            ELSE IF IsIntText(t) THEN FltCell(ParseNat(t) * 100)
            ELSE FltCell(FloatVal(t))
      [] OTHER -> IF IsNAText(t) THEN NaNCell ELSE StrCell(t)

read_csv(f) ==
    LET n == Len(f.header)
        m == Len(f.rows)
        raw == [i \in 1..m |-> PadRow(f.rows[i], n)]
        dtype == [j \in 1..n |-> InferDtype([i \in 1..m |-> raw[i][j]])]
    IN  [cols |-> f.header,
         rows |-> [i \in 1..m |-> [j \in 1..n |-> ParseCell(raw[i][j], dtype[j])]]]

\* --------------------------------------------------- DataFrame.to_csv
to_csv(d) ==
    TableFile(d.cols,
              [i \in 1..Len(d.rows) |->
                  [j \in 1..Len(d.cols) |-> FormatCell(d.rows[i][j])]])

\* df[sub] = 0 for every subject the frame lacks (appended in SUBJECTS order)
RECURSIVE AddMissingSubjects(_, _)
AddMissingSubjects(d, j) ==
    IF j > Len(SUBJECTS) THEN d
    ELSE IF HasCol(d.cols, SUBJECTS[j]) THEN AddMissingSubjects(d, j + 1)
    ELSE AddMissingSubjects(
            [cols |-> Append(d.cols, SUBJECTS[j]),
             rows |-> [i \in 1..Len(d.rows) |-> Append(d.rows[i], IntCell(0))]],
            j + 1)

EnsureSubjects(d) == AddMissingSubjects(d, 1)

\* ------------------------------------------------------------ pd.concat
\* pd.concat([d, one-row frame], ignore_index=True): the union of the
\* columns (d's first), missing cells NaN, and a column of numbers that
\* holds a float or a NaN becomes float64.
Upcast(c, column) ==
    IF /\ c.k = "int"
       /\ \A i \in 1..Len(column) : column[i].k \in {"int", "float", "nan"}
       /\ \E i \in 1..Len(column) : column[i].k \in {"float", "nan"}
    THEN FltCell(c.n * 100)
    ELSE c

concat(d, new) ==
    LET Added(c) == ~HasCol(d.cols, c)
        cols == d.cols \o SelectSeq(new.cols, Added)
        n == Len(cols)
        old == [i \in 1..Len(d.rows) |->
                   [j \in 1..n |-> IF j <= Len(d.cols) THEN d.rows[i][j] ELSE NaNCell]]
        row == [j \in 1..n |->
                   IF HasCol(new.cols, cols[j]) THEN Cell(new, 1, cols[j]) ELSE NaNCell]
        all == Append(old, row)
    IN  [cols |-> cols,
         rows |-> [i \in 1..Len(all) |->
                     [j \in 1..n |->
                         Upcast(all[i][j], [r \in 1..Len(all) |-> all[r][j]])]]]

\* ---------------------------------------------------------------- inputs
Al == <<"A", "l">>

M50 == <<"5", "0">>

Row50 == <<Al, M50, M50, M50, M50, M50, M50>>

\* what the name prompt is given: a plain name, digits, a missing-value
\* marker, nothing
NameInputs == {Al, <<"0", "7">>, <<"N", "A">>, <<>>}

\* what the six mark prompts are given (the last holds a mark the prompt
\* rejects)
MarkInputs ==
    { <<80, 80, 80, 80, 80, 80>>, <<100, 90, 80, 70, 60, 51>>,
      <<101, 80, 80, 80, 80, 80>> }

HeaderOnlyFile == TableFile(Header, <<>>)

\* one line has more fields than the header
MalformedFile == TableFile(Header, <<Row50, Row50 \o <<M50>>>>)

\* the UHV cell of the record is blank
BlankCellFile == TableFile(Header, <<<<Al, M50, <<>>, M50, M50, M50, M50>>>>)

\* no UHV column
MissingColumnFile ==
    TableFile(<<NameCol, "Machine Learning", "DMGT", "DBMS", "OT", "ES">>,
              <<<<Al, M50, M50, M50, M50, M50>>>>)

\* the first two subjects the other way round
ReorderedFile ==
    TableFile(<<NameCol, "UHV", "Machine Learning", "DMGT", "DBMS", "OT", "ES">>,
              <<Row50>>)

\* no Name column
NoNameFile == TableFile(SUBJECTS, <<<<M50, M50, M50, M50, M50, M50>>>>)

\* student_data.csv as the program may find it
ExternalFiles ==
    { AbsentFile, ZeroByteFile, BlankFile, HeaderOnlyFile, MalformedFile,
      BlankCellFile, MissingColumnFile, ReorderedFile, NoNameFile }

\* whether plt.savefig writes the image or raises (OSError)
RenderOutcomes == {"saved", "oserror"}

\* --------------------------------------------------------------- metrics
\* round(num / den) to the nearest integer, ties to even
RoundHalfEven(num, den) ==
    LET q == num \div den
        r == num % den
    IN  IF 2 * r < den THEN q
        ELSE IF 2 * r > den THEN q + 1
        ELSE IF q % 2 = 0 THEN q ELSE q + 1

RECURSIVE SumHundredths(_)
SumHundredths(cells) ==
    IF cells = <<>> THEN 0
    ELSE Hundredths(Head(cells)) + SumHundredths(Tail(cells))

IsNaN(c) == c.k = "nan"

NotNaN(c) == c.k # "nan"

\* x >= v for a float x that may be NaN (every comparison with NaN is false)
GE(x, v) == IsNumCell(x) /\ Hundredths(x) >= v * 100

\* the row's marks, in SUBJECTS order
SubjectCells(d, i) == [j \in 1..Len(SUBJECTS) |-> Cell(d, i, SUBJECTS[j])]

\* sum(...) over a text raises TypeError, which the function does not catch
PercentageRaises(d, i) ==
    /\ \A j \in 1..Len(SUBJECTS) : HasCol(d.cols, SUBJECTS[j])
    /\ \E j \in 1..Len(SUBJECTS) : Cell(d, i, SUBJECTS[j]).k = "str"

calculate_percentage(d, i) ==
    IF \E j \in 1..Len(SUBJECTS) : ~HasCol(d.cols, SUBJECTS[j])
    THEN FltCell(0)
    ELSE IF \E j \in 1..Len(SUBJECTS) : IsNaN(Cell(d, i, SUBJECTS[j]))
    THEN NaNCell
    ELSE FltCell(RoundHalfEven(SumHundredths(SubjectCells(d, i)), Len(SUBJECTS)))

\* x > v for a float x that may be NaN
GT(x, v) == IsNumCell(x) /\ Hundredths(x) > v * 100

\* assign_grade with strict comparisons
assign_grade_strict(percentage) ==
    IF GT(percentage, 90) THEN "A+"
    ELSE IF GT(percentage, 80) THEN "A"
    ELSE IF GT(percentage, 70) THEN "B+"
    ELSE IF GT(percentage, 60) THEN "B"
    ELSE IF GT(percentage, 50) THEN "C"
    ELSE IF GT(percentage, 40) THEN "D"
    ELSE "F"

assign_grade(percentage) ==
    IF GE(percentage, 90) THEN "A+"
    ELSE IF GE(percentage, 80) THEN "A"
    ELSE IF GE(percentage, 70) THEN "B+"
    ELSE IF GE(percentage, 60) THEN "B"
    ELSE IF GE(percentage, 50) THEN "C"
    ELSE IF GE(percentage, 40) THEN "D"
    ELSE "F"

Grades == {"A+", "A", "B+", "B", "C", "D", "F"}

\* Series.mean().round(2): NaN cells are skipped; NaN when none is left
Mean(cells) ==
    LET kept == SelectSeq(cells, NotNaN)
    IN  IF kept = <<>> THEN NaNCell
        ELSE FltCell(RoundHalfEven(SumHundredths(kept), Len(kept)))

Column(d, c) == [i \in 1..Len(d.rows) |-> Cell(d, i, c)]

\* df[SUBJECTS].mean().round(2), in SUBJECTS order
subject_averages(d) == [j \in 1..Len(SUBJECTS) |-> Mean(Column(d, SUBJECTS[j]))]

\* Series.max() / Series.min(): NaN skipped, NaN when none is left
\* (rounding is monotone, so the rounded extreme is the extreme of the
\* rounded means)
Extreme(cells, max) ==
    LET kept == SelectSeq(cells, NotNaN)
    IN  IF kept = <<>> THEN NaNCell
        ELSE kept[CHOOSE i \in 1..Len(kept) :
                    \A j \in 1..Len(kept) :
                        IF max THEN kept[j].n <= kept[i].n ELSE kept[j].n >= kept[i].n]

\* Series.idxmax() / idxmin(): the first index holding the extreme of the
\* values that are not NaN; 0 when every value is NaN (then .loc raises)
idx_extreme(cells, max) ==
    LET I == {i \in 1..Len(cells) : NotNaN(cells[i])}
        best == {i \in I : \A j \in I :
                    IF max THEN cells[j].n <= cells[i].n ELSE cells[j].n >= cells[i].n}
    IN  IF I = {} THEN 0
        ELSE CHOOSE i \in best : \A j \in best : i <= j

\* Series.value_counts(): how many records hold each grade
value_counts(grades) ==
    [g \in Grades |-> Cardinality({i \in 1..Len(grades) : grades[i] = g})]

NoCounts == [g \in Grades |-> 0]

NoReport == [n |-> 0, topper |-> 0, duller |-> 0, avgs |-> <<>>,
             class_avg |-> NaNCell, grade |-> "", highest |-> NaNCell,
             lowest |-> NaNCell, grade_counts |-> NoCounts]

\* analyze_performance's frame before it is loaded, and after it returns
NoAnalysis == [cols |-> <<>>, rows |-> <<>>, Percentage |-> <<>>, Grade |-> <<>>]

\* an emptiness test that looks at the columns only
df_empty_columns(d) == Len(d.cols) = 0

\* DataFrame.empty
df_empty(d) == Len(d.rows) = 0 \/ Len(d.cols) = 0

\* df['Percentage'] and df['Grade']
WithMetrics(d) ==
    LET pct == [i \in 1..Len(d.rows) |-> calculate_percentage(d, i)]
    IN  [cols |-> d.cols, rows |-> d.rows, Percentage |-> pct,
         Grade |-> [i \in 1..Len(d.rows) |-> assign_grade(pct[i])]]

\* ------------------------------------------------------------ operations
\* pd.DataFrame(columns=["Name"] + SUBJECTS).to_csv(CSV_FILE, index=False)
FreshFile == to_csv(EmptyFrame(Header))

\* initialize_csv: the file it leaves, and the exception that escapes it
initialize_csv(f) ==
    IF ~f.exists THEN [file |-> FreshFile, raised |-> "none"]
    ELSE IF ReadError(f) = "ok"
         THEN [file |-> to_csv(EnsureSubjects(read_csv(f))), raised |-> "none"]
    ELSE IF ReadError(f) = "EmptyDataError"
         THEN [file |-> FreshFile, raised |-> "none"]
    ELSE [file |-> f, raised |-> ReadError(f)]

\* the prompt takes a mark when 0 <= mark <= 100, and asks again otherwise
ValidMark(mark) == 0 <= mark /\ mark <= 100

\* pd.DataFrame([new_student])
new_student(name, marks) ==
    [cols |-> Header,
     rows |-> <<[j \in 1..Len(Header) |->
                   IF j = 1 THEN StrCell(name) ELSE IntCell(marks[j - 1])]>>]

\* add_student after the prompts: the file it leaves, and the exception
\* that escapes it
add_student(f, name, marks) ==
    IF f.exists /\ st_size(f) > 0
    THEN IF ReadError(f) = "ok"
         THEN [file |-> to_csv(concat(read_csv(f), new_student(name, marks))),
               raised |-> "none"]
         ELSE [file |-> f, raised |-> ReadError(f)]
    ELSE [file |-> to_csv(concat(EmptyFrame(Header), new_student(name, marks))),
          raised |-> "none"]

\* analyze_performance up to its menu loop: the message printed, the
\* frame, and whether the loop is entered
analyze_load(f) ==
    IF ~f.exists \/ st_size(f) = 0
    THEN [out |-> "no_data", df |-> NoAnalysis, entered |-> FALSE]
    ELSE IF ReadError(f) # "ok"
    THEN [out |-> "error", df |-> NoAnalysis, entered |-> FALSE]
    ELSE IF df_empty(read_csv(f))
    THEN [out |-> "no_records", df |-> NoAnalysis, entered |-> FALSE]
    ELSE LET d == EnsureSubjects(read_csv(f))
         IN  IF \E i \in 1..Len(d.rows) : PercentageRaises(d, i)
             THEN [out |-> "error", df |-> NoAnalysis, entered |-> FALSE]
             ELSE [out |-> "menu", df |-> WithMetrics(d), entered |-> TRUE]

\* the handler placed inside the menu loop
AfterAnalysisException_InLoop == "analysis"

\* where an exception raised inside the menu loop leaves the program: the
\* try statement encloses the loop, so the handler runs after it
AfterAnalysisException == "main"

\* the model stops adding at MaxRows records
CanAdd(f) == ~(f.exists /\ ReadError(f) = "ok" /\ Len(f.rows) >= MaxRows)

\* ------------------------------------------------------------------ Init
Init ==
    /\ pc = "start"
    /\ file \in ExternalFiles
    /\ df = NoAnalysis
    /\ out = "none"
    /\ report = NoReport
    /\ lastOp = "start"
    /\ gp = 0
    /\ gg = "none"

\* --------------------------------------------------------------- actions
InitializeCsv ==
    /\ pc = "start"
    /\ LET r == initialize_csv(file)
       IN  /\ file' = r.file
           /\ pc' = IF r.raised = "none" THEN "main" ELSE "crashed"
           /\ out' = IF r.raised = "none" THEN "banner" ELSE r.raised
    /\ lastOp' = "init"
    /\ UNCHANGED <<df, report, gp, gg>>

\* main menu, choice 1
AddStudent ==
    /\ pc = "main"
    /\ CanAdd(file)
    /\ \E name \in NameInputs, marks \in MarkInputs :
          /\ \A j \in 1..Len(SUBJECTS) : ValidMark(marks[j])
          /\ LET r == add_student(file, name, marks)
             IN  /\ file' = r.file
                 /\ pc' = IF r.raised = "none" THEN "main" ELSE "crashed"
                 /\ out' = IF r.raised = "none" THEN "added" ELSE r.raised
    /\ lastOp' = "add"
    /\ UNCHANGED <<df, report, gp, gg>>

\* main menu, choice 2, up to the first prompt of the analysis menu
Analyze ==
    /\ pc = "main"
    /\ LET r == analyze_load(file)
       IN  /\ df' = r.df
           /\ out' = r.out
           /\ pc' = IF r.entered THEN "analysis" ELSE "main"
    /\ lastOp' = "analyze"
    /\ UNCHANGED <<file, report, gp, gg>>

\* main menu, choice 3
Exit ==
    /\ pc = "main"
    /\ pc' = "done"
    /\ out' = "exiting"
    /\ lastOp' = "exit"
    /\ UNCHANGED <<file, df, report, gp, gg>>

\* main menu, any other choice
InvalidMainChoice ==
    /\ pc = "main"
    /\ out' = "invalid"
    /\ lastOp' = "invalid"
    /\ UNCHANGED <<pc, file, df, report, gp, gg>>

\* another program rewrites student_data.csv while the menu waits
ExternalWrite ==
    /\ pc = "main"
    /\ file' \in ExternalFiles \ {file}
    /\ out' = "none"
    /\ report' = NoReport
    /\ lastOp' = "external"
    /\ UNCHANGED <<pc, df, gp, gg>>

\* ------------------------------------------------- the analysis menu
Raised(d) == [raised |-> TRUE, out |-> "error", report |-> [NoReport EXCEPT !.n = Len(d.rows)]]

Shown(d, what, rep) == [raised |-> FALSE, out |-> what, report |-> [rep EXCEPT !.n = Len(d.rows)]]

\* choice 1: df[['Name'] + SUBJECTS + ['Percentage', 'Grade']] raises
\* KeyError when the frame has no Name column
view_all(d) ==
    IF HasCol(d.cols, NameCol) THEN Shown(d, "table", NoReport) ELSE Raised(d)

\* choice 2
subject_chart(d, io) ==
    IF io = "saved"
    THEN Shown(d, "averages", [NoReport EXCEPT !.avgs = subject_averages(d)])
    ELSE Raised(d)

\* choice 3: df.loc[...] raises when idxmax / idxmin found no value
topper_duller(d) ==
    IF Len(d.rows) > 0
    THEN IF idx_extreme(d.Percentage, TRUE) = 0 THEN Raised(d)
         ELSE Shown(d, "topper",
                    [NoReport EXCEPT !.topper = idx_extreme(d.Percentage, TRUE),
                                     !.duller = idx_extreme(d.Percentage, FALSE)])
    ELSE Shown(d, "no_students", NoReport)

\* choice 4
class_stats(d, io) ==
    IF Len(d.rows) > 0
    THEN IF io = "saved"
         THEN Shown(d, "stats",
                    [NoReport EXCEPT
                        !.class_avg = Mean(d.Percentage),
                        !.grade = assign_grade(Mean(d.Percentage)),
                        !.highest = Extreme(subject_averages(d), TRUE),
                        !.lowest = Extreme(subject_averages(d), FALSE),
                        !.grade_counts = value_counts(d.Grade)])
         ELSE Raised(d)
    ELSE Shown(d, "no_students", NoReport)

\* one pass of the menu loop, or the handler of the exception it raised
MenuStep(op, r) ==
    /\ lastOp' = op
    /\ out' = r.out
    /\ report' = r.report
    /\ pc' = IF r.raised THEN AfterAnalysisException ELSE pc
    /\ df' = IF r.raised /\ AfterAnalysisException = "main" THEN NoAnalysis ELSE df
    /\ UNCHANGED <<file, gp, gg>>

ViewAll == pc = "analysis" /\ MenuStep("view", view_all(df))

SubjectAverages ==
    /\ pc = "analysis"
    /\ \E io \in RenderOutcomes : MenuStep("averages", subject_chart(df, io))

TopperDuller == pc = "analysis" /\ MenuStep("topper", topper_duller(df))

ClassStats ==
    /\ pc = "analysis"
    /\ \E io \in RenderOutcomes : MenuStep("stats", class_stats(df, io))

\* choice 5
Back ==
    /\ pc = "analysis"
    /\ pc' = "main"
    /\ df' = NoAnalysis
    /\ report' = NoReport
    /\ out' = "none"
    /\ lastOp' = "back"
    /\ UNCHANGED <<file, gp, gg>>

\* any other choice
InvalidChoice ==
    /\ pc = "analysis"
    /\ out' = "invalid"
    /\ lastOp' = "invalid"
    /\ UNCHANGED <<pc, file, df, report, gp, gg>>

Next ==
    \/ InitializeCsv
    \/ AddStudent
    \/ Analyze
    \/ Exit
    \/ InvalidMainChoice
    \/ ExternalWrite
    \/ ViewAll
    \/ SubjectAverages
    \/ TopperDuller
    \/ ClassStats
    \/ Back
    \/ InvalidChoice

Spec == Init /\ [][Next]_vars

\* ------------------------------------------- assign_grade on its own
MaxPercent == 100

InitGrade ==
    /\ pc = "grade"
    /\ file = AbsentFile
    /\ df = NoAnalysis
    /\ out = "none"
    /\ report = NoReport
    /\ lastOp = "start"
    /\ gp \in 0..(MaxPercent * 100)
    /\ gg = "none"

ApplyGrade ==
    /\ pc = "grade"
    /\ gg = "none"
    /\ gg' = assign_grade(FltCell(gp))
    /\ UNCHANGED <<pc, file, df, out, report, lastOp, gp>>

NextGrade == ApplyGrade

SpecGrade == InitGrade /\ [][NextGrade]_vars

\* ============================================================== claims
MenuOps == {"view", "averages", "topper", "stats"}

\* the text of record i's field in column c ("" when the line has none)
FieldText(f, i, c) ==
    IF HasCol(f.header, c) /\ ColIndex(f.header, c) <= Len(f.rows[i])
    THEN f.rows[i][ColIndex(f.header, c)]
    ELSE <<>>

\* a mark's value in hundredths, -1 for a text that is no number
MarkOf(t) ==
    IF IsIntText(t) THEN ParseNat(t) * 100
    ELSE IF IsFloatText(t) THEN FloatVal(t)
    ELSE -1

\* the records a file stores: each name as written, each mark's value
Stored(f) ==
    IF f.exists /\ ReadError(f) = "ok"
    THEN [i \in 1..Len(f.rows) |->
            [name |-> FieldText(f, i, NameCol),
             marks |-> [j \in 1..Len(SUBJECTS) |-> MarkOf(FieldText(f, i, SUBJECTS[j]))]]]
    ELSE <<>>

\* C1: every completed add_student leaves the stored table as it was, with
\* exactly one record appended: each earlier record keeps its position, its
\* name and its marks.
C1_AddKeepsStoredRecords ==
    [][(pc = "main" /\ lastOp' = "add" /\ pc' = "main") =>
          /\ Len(Stored(file')) = Len(Stored(file)) + 1
          /\ \A i \in 1..Len(Stored(file)) : Stored(file')[i] = Stored(file)[i]]_vars

C3_InitializeRecoversUnreadableFile ==
    [][(pc = "start" /\ file.exists /\ ReadError(file) # "ok") =>
          (pc' = "main" /\ file' = FreshFile)]_vars

\* C4: after startup no operation crashes, whatever the file holds when the
\* operation reads it, and the program ends only by the Exit choice.
C4_NoFatalPathAfterStartup ==
    /\ (lastOp \notin {"start", "init"}) => pc # "crashed"
    /\ pc = "done" => lastOp = "exit"

\* C5: loading the file add_student has just written gives back the record
\* entered, its name as the text typed and its marks as the integers typed,
\* and saving the loaded table and loading again gives the same table.
C5_RoundTripKeepsRecords ==
    (lastOp = "add" /\ pc = "main") =>
        LET d == read_csv(file)
            i == Len(file.rows)
        IN  /\ Cell(d, i, NameCol) = StrCell(FieldText(file, i, NameCol))
            /\ \A j \in 1..Len(SUBJECTS) :
                  /\ IsNumCell(Cell(d, i, SUBJECTS[j]))
                  /\ Hundredths(Cell(d, i, SUBJECTS[j]))
                        = MarkOf(FieldText(file, i, SUBJECTS[j]))
            /\ read_csv(to_csv(d)) = d

\* the grades from worst to best
Rank(g) ==
    CASE g = "F" -> 0 [] g = "D" -> 1 [] g = "C" -> 2 [] g = "B" -> 3
      [] g = "B+" -> 4 [] g = "A" -> 5 [] g = "A+" -> 6

\* C6: assign_grade gives every percentage (in hundredths) exactly one
\* grade, the one of its band: >= 90 A+, [80,90) A, [70,80) B+, [60,70) B,
\* [50,60) C, [40,50) D, < 40 F; and a higher percentage never gets a worse
\* grade.
C6_GradeIsStepFunction ==
    gg # "none" =>
        /\ gg \in Grades
        /\ (gg = "A+") = (gp >= 9000)
        /\ (gg = "A") = (8000 <= gp /\ gp < 9000)
        /\ (gg = "B+") = (7000 <= gp /\ gp < 8000)
        /\ (gg = "B") = (6000 <= gp /\ gp < 7000)
        /\ (gg = "C") = (5000 <= gp /\ gp < 6000)
        /\ (gg = "D") = (4000 <= gp /\ gp < 5000)
        /\ (gg = "F") = (gp < 4000)
        /\ gp > 0 => Rank(assign_grade(FltCell(gp - 1))) <= Rank(gg)

\* the boundary 40.00 has been graded
C6_Witness == gp = 4000 /\ gg = "D"

\* C7: no computation of the analysis menu runs over zero records, and an
\* absent, zero-byte or header-only file makes analyze_performance print
\* its no-data message and return to the main menu.
C7_NoAnalysisOverEmptyTable ==
    /\ pc = "analysis" => Len(df.rows) > 0
    /\ lastOp \in MenuOps => (report.n > 0 /\ out # "no_students")
    /\ ( /\ lastOp = "analyze"
         /\ \/ ~file.exists
            \/ st_size(file) = 0
            \/ (ReadError(file) = "ok" /\ file.rows = <<>>) )
       => (pc = "main" /\ out \in {"no_data", "no_records"})

\* analyze_performance has met a file that holds the header and no record
C7_Witness ==
    lastOp = "analyze" /\ out = "no_records" /\ file.header = Header /\ pc = "main"

\* C8: choice 3 on a table with records shows as topper the first record
\* whose Percentage is the greatest of all records, and as duller the first
\* whose Percentage is the least.
C8_TopperDullerFirstExtreme ==
    lastOp = "topper" =>
        /\ out = "topper"
        /\ LET P == df.Percentage
                t == report.topper
                u == report.duller
           IN  /\ t \in 1..Len(P) /\ u \in 1..Len(P)
               /\ \A j \in 1..Len(P) : IsNumCell(P[j])
               /\ \A j \in 1..Len(P) : P[j].n <= P[t].n /\ P[j].n >= P[u].n
               /\ \A j \in 1..(t - 1) : P[j].n < P[t].n
               /\ \A j \in 1..(u - 1) : P[j].n > P[u].n

ZeroIfMissing(c) == IF IsNaN(c) THEN IntCell(0) ELSE c

\* round(sum of the marks / 600 * 100, 2) with a missing mark counted as 0
PercentageWithZeros(d, i) ==
    FltCell(RoundHalfEven(
        SumHundredths([j \in 1..Len(SUBJECTS) |-> ZeroIfMissing(Cell(d, i, SUBJECTS[j]))]),
        Len(SUBJECTS)))

\* C9: in the analysis a missing mark counts as 0: each record's Percentage
\* is round(sum / 600 * 100, 2) over its marks with the missing one as 0, its
\* Grade is that Percentage's grade, and the subject averages and the class
\* average count the mark as 0.
C9_MissingMarkCountsAsZero ==
    pc = "analysis" =>
        /\ \A i \in 1..Len(df.rows) :
              /\ df.Percentage[i] = PercentageWithZeros(df, i)
              /\ df.Grade[i] = assign_grade(PercentageWithZeros(df, i))
        /\ out = "averages" =>
              report.avgs =
                [j \in 1..Len(SUBJECTS) |->
                    Mean([i \in 1..Len(df.rows) |->
                            ZeroIfMissing(Cell(df, i, SUBJECTS[j]))])]
        /\ out = "stats" =>
              report.class_avg =
                Mean([i \in 1..Len(df.rows) |-> PercentageWithZeros(df, i)])

\* C10: after initialize_csv and after every add_student the header of a
\* file that starts with the Name column is Name followed by the six
\* subjects in SUBJECTS order.
C10_HeaderIsNameThenSubjects ==
    (lastOp \in {"init", "add"} /\ pc = "main" /\ Head(file.header) = NameCol)
        => file.header = Header

====
